---- MODULE Spec2Model ----
(***************************************************************************)
(* ID-SMART: the FUTO student ID card generator.                           *)
(*                                                                         *)
(* The repository holds two servers with the same POST /generate route:    *)
(*   "disk"  - src/nodejs_id_card_app.js: multer.diskStorage, QR code and  *)
(*             cards written under static/, front card sent as a file;     *)
(*   "cloud" - src/unnamed/part_001: multer.memoryStorage, photo and cards *)
(*             uploaded to Cloudinary, JSON answer with the two URLs.      *)
(* variant says which server is running.  A request is a process whose     *)
(* steps are the synchronous stretches of code between two awaits.         *)
(*                                                                         *)
(* Text is a sequence of one-character strings; a form body is a function  *)
(* from the names of the text parts that were sent to their text.          *)
(***************************************************************************)
EXTENDS Integers, Sequences, FiniteSets, TLC

(***************************** characters ********************************)
LowerSeq == <<"a","b","c","d","e","f","g","h","i","j","k","l","m",
              "n","o","p","q","r","s","t","u","v","w","x","y","z">>
UpperSeq == <<"A","B","C","D","E","F","G","H","I","J","K","L","M",
              "N","O","P","Q","R","S","T","U","V","W","X","Y","Z">>
Range(s) == { s[i] : i \in DOMAIN s }
Lower == Range(LowerSeq)
Upper == Range(UpperSeq)
Digits == {"0","1","2","3","4","5","6","7","8","9"}
\* what String.prototype.trim strips (the members the inputs use)
WhiteSpace == {" ", "\t", "\n"}

ToLowerChar(c) ==
    IF c \in Upper THEN LowerSeq[CHOOSE i \in DOMAIN UpperSeq : UpperSeq[i] = c] ELSE c
ToUpperChar(c) ==
    IF c \in Lower THEN UpperSeq[CHOOSE i \in DOMAIN LowerSeq : LowerSeq[i] = c] ELSE c
toLowerCase(s) == [i \in DOMAIN s |-> ToLowerChar(s[i])]
toUpperCase(s) == [i \in DOMAIN s |-> ToUpperChar(s[i])]

\* String.prototype.trim
trim(s) ==
    LET keep == { i \in DOMAIN s : s[i] \notin WhiteSpace }
    IN  IF keep = {} THEN <<>>
        ELSE SubSeq(s, CHOOSE i \in keep : \A j \in keep : i <= j,
                       CHOOSE i \in keep : \A j \in keep : j <= i)

\* RegExp.prototype.test for a pattern that is a plain word: substring search
Contains(s, word) ==
    \E i \in 0..(Len(s) - Len(word)) : SubSeq(s, i + 1, i + Len(word)) = word

\* path.extname of a file name without directories
extname(fname) ==
    LET dots == { i \in DOMAIN fname : fname[i] = "." }
    IN  IF dots = {} THEN <<>>
        ELSE LET last == CHOOSE i \in dots : \A j \in dots : j <= i
             IN  IF last = 1 THEN <<>> ELSE SubSeq(fname, last, Len(fname))

(***************************** constants *********************************)
MaxNameLen == 100
MaxRegLen == 50
MaxFileMB == 16
DPI == 300
Required == <<"name", "reg", "dept", "faculty", "gender", "expiry">>

(*************************** pure helpers ********************************)
\* /jpeg|jpg|png|gif/.test(x): the pattern is not anchored
AllowedTypeWords == { <<"j","p","e","g">>, <<"j","p","g">>, <<"p","n","g">>, <<"g","i","f">> }
allowedTypesTest(x) == \E w \in AllowedTypeWords : Contains(x, w)

\* upload.fileFilter: TRUE when cb(null, true), FALSE when cb(new Error(...))
fileFilter(file) ==
    LET extOk  == allowedTypesTest(toLowerCase(extname(file.originalname)))
        mimeOk == allowedTypesTest(file.mimetype)
    IN  mimeOk /\ extOk

\* reg.replace(/[^a-z0-9_-]/gi, '_')
RegChars == Lower \cup Upper \cup Digits \cup {" ", ".", "_", "/", "-"}
SafeChars == Lower \cup Upper \cup Digits \cup {"_", "-"}
\* the validation pattern's class in the place of [^a-z0-9_-]
safeRegOfRegClass(reg) == [i \in DOMAIN reg |-> IF reg[i] \in RegChars THEN reg[i] ELSE "_"]
\* reg.replace(/[^a-z0-9_-]/gi, '_')
safeRegOf(reg) == [i \in DOMAIN reg |-> IF reg[i] \in SafeChars THEN reg[i] ELSE "_"]

\* the pattern without its anchors
regPatternUnanchored(reg) == \E i \in DOMAIN reg : reg[i] \in RegChars
\* /^[A-Za-z0-9 ._/-]+$/.test(reg)
regPatternTest(reg) == Len(reg) >= 1 /\ \A i \in DOMAIN reg : reg[i] \in RegChars

\* !data[field] || !data[field].trim()
FieldMissing(data, field) ==
    \/ field \notin DOMAIN data
    \/ data[field] = <<>>
    \/ trim(data[field]) = <<>>

NameTooLong(data) == Len(data.name) > MaxNameLen
RegTooLong(data) == Len(data.reg) > MaxRegLen

validateFormInput(data) ==
    LET missing == { i \in DOMAIN Required : FieldMissing(data, Required[i]) }
    IN  IF missing # {}
        THEN [valid |-> FALSE,
              error |-> <<"Missing field: ", Required[CHOOSE i \in missing : \A j \in missing : i <= j]>>]
        ELSE IF NameTooLong(data)
        THEN [valid |-> FALSE, error |-> <<"Name too long (max 100 characters)">>]
        ELSE IF RegTooLong(data)
        THEN [valid |-> FALSE, error |-> <<"Registration number too long (max 50 characters)">>]
        ELSE IF ~regPatternTest(data.reg)
        THEN [valid |-> FALSE, error |-> <<"Invalid characters in registration number">>]
        ELSE [valid |-> TRUE, error |-> <<>>]

\* Math.floor in the place of Math.round
ptToPxFloor(ptMilli) ==
    LET floored == (ptMilli * DPI) \div 72000
    IN  IF floored >= 1 THEN floored ELSE 1
\* Math.max(1, Math.round(pt * DPI / 72.0)), pt given in thousandths of a
\* point; Math.round(x) is floor(x + 1/2), and \div is the floor division
ptToPx(ptMilli) ==
    LET rounded == (2 * ptMilli * DPI + 72000) \div 144000
    IN  IF rounded >= 1 THEN rounded ELSE 1

\* generateQRCode: the text that is encoded
qrTextOf(data) ==
    <<"Name: ">> \o data.name \o <<"\nReg: ">> \o data.reg \o <<"\nDept: ">> \o data.dept


(****************************** inputs ***********************************)
\* the requests in flight: two, so that every interleaving of a pair is explored
Requests == {1, 2}

Rep(c, n) == [i \in 1..n |-> c]
NameAl == <<"A","l">>
NameBo == <<"B","o">>
RegSlash == <<"A","/","1">>
RegDot == <<"A",".","1">>
RegHash == <<"A","#","1">>

GoodBody(n, r) ==
    [name |-> n, reg |-> r, dept |-> <<"C","S">>, faculty |-> <<"S","I","C","T">>,
     gender |-> <<"F">>, expiry |-> <<"2","0","2","5">>]
Without(data, field) == [k \in (DOMAIN data \ {field}) |-> data[k]]
With(data, field, v) == [k \in DOMAIN data |-> IF k = field THEN v ELSE data[k]]

Photo(fname, mime, mb) == [originalname |-> fname, mimetype |-> mime, sizeMB |-> mb]
MimeJpeg == <<"i","m","a","g","e","/","j","p","e","g">>
MimePng == <<"i","m","a","g","e","/","p","n","g">>
MimeGif == <<"i","m","a","g","e","/","g","i","f">>
MimeBmp == <<"i","m","a","g","e","/","b","m","p">>
PhotoJpg == Photo(<<"a",".","j","p","g">>, MimeJpeg, 1)
PhotoPNG == Photo(<<"b",".","P","N","G">>, MimePng, MaxFileMB)
PhotoGif == Photo(<<"c",".","g","i","f">>, MimeGif, 1)
PhotoJpgx == Photo(<<"d",".","j","p","g","x">>, MimeJpeg, 1)
PhotoBmpExt == Photo(<<"e",".","b","m","p">>, MimePng, 1)
PhotoBmpMime == Photo(<<"f",".","p","n","g">>, MimeBmp, 1)
PhotoHuge == Photo(<<"a",".","j","p","g">>, MimeJpeg, MaxFileMB + 1)

\* one multipart submission: the text parts, the photo part (at most one),
\* and whether the text parts precede the photo part in the stream
Form(b, up, first) == [body |-> b, upload |-> up, fieldsFirst |-> first]

B0 == GoodBody(NameAl, RegSlash)
ValidForms ==
    { Form(B0, <<PhotoJpg>>, TRUE),
      Form(GoodBody(NameBo, RegDot), <<PhotoPNG>>, TRUE),
      Form(GoodBody(Rep("n", MaxNameLen), Rep("7", MaxRegLen)), <<PhotoGif>>, FALSE),
      Form(GoodBody(NameBo, RegSlash), <<PhotoJpgx>>, FALSE) }
InvalidBodies ==
    { Without(B0, "name"), Without(B0, "reg"), With(B0, "reg", <<"\t">>),
      With(B0, "dept", <<>>), With(B0, "faculty", <<" ">>), Without(B0, "gender"),
      With(B0, "expiry", <<" ", " ">>),
      With(B0, "name", Rep("n", MaxNameLen + 1)),
      With(B0, "reg", Rep("7", MaxRegLen + 1)),
      With(B0, "reg", RegHash),
      With(B0, "reg", Rep("7", MaxRegLen) \o <<"#">>),
      Without(With(B0, "reg", RegHash), "name"),
      With(With(B0, "reg", RegHash), "name", Rep("n", MaxNameLen + 1)) }
Forms ==
    ValidForms
    \cup { Form(b, <<PhotoJpg>>, TRUE) : b \in InvalidBodies }
    \cup { Form(Without(B0, "name"), <<>>, TRUE), Form(B0, <<>>, TRUE) }
    \cup { Form(B0, <<p>>, TRUE) : p \in {PhotoBmpExt, PhotoBmpMime, PhotoHuge} }
    \cup { Form(B0, <<PhotoHuge>>, FALSE) }

(******************************* state ***********************************)
VARIABLES
    variant,        \* "disk" or "cloud": which server is running
    frontTemplate,  \* static/front_template.png exists
    backTemplate,   \* static/back_template.png exists
    input,          \* input[r]: the form request r submitted
    pc,             \* pc[r]: where request r stands
    loc,            \* loc[r]: the locals of the handler and of generateIDCard
    responses,      \* responses[r]: what res has sent, in order
    calls,          \* calls[r]: the calls to cloudinary.uploader, in order
    wrote,          \* wrote[r]: the disk paths request r has written
    uploadDir,      \* static/uploads: path -> the request whose photo it holds
    outputDir,      \* static/id_cards: path -> the image it holds
    cloudUploads,   \* futo-id-cards/uploads: the photo assets
    cloudGenerated, \* futo-id-cards/generated: public_id -> the image
    ptA, ptB,       \* a pair of point sizes, in thousandths of a point
    pxPair,         \* their conversions <<ptToPx(ptA), ptToPx(ptB)>>, <<>> before
    sanIn,          \* a registration number as it arrives, with a photo part
    sanOut          \* the names one code site derives from it, <<>> before
vars == <<variant, frontTemplate, backTemplate, input, pc, loc, responses, calls,
          wrote, uploadDir, outputDir, cloudUploads, cloudGenerated, ptA, ptB, pxPair,
          sanIn, sanOut>>
envVars == <<variant, frontTemplate, backTemplate, input>>
ptVars == <<ptA, ptB, pxPair, sanIn, sanOut>>
diskVars == <<wrote, uploadDir, outputDir>>
cloudVars == <<calls, cloudUploads, cloudGenerated>>

NoSanIn == [reg |-> <<>>, photo |-> PhotoJpg, fieldsFirst |-> TRUE]
EmptyMap == [k \in {} |-> 0]
Put(f, k, v) == [x \in (DOMAIN f \cup {k}) |-> IF x = k THEN v ELSE f[x]]
Remove(f, k) == [x \in (DOMAIN f \ {k}) |-> f[x]]

NoImage == [kind |-> "none", qr |-> <<>>, photo |-> 0, text |-> <<>>]
InitLoc ==
    [safeReg |-> <<>>, photoPath |-> <<>>, photoUrl |-> 0, qrBuffer |-> <<>>,
     qrImage |-> <<>>, photoImage |-> 0, frontBuffer |-> NoImage, backBuffer |-> NoImage,
     frontUrl |-> <<>>, backUrl |-> <<>>]

Init ==
    /\ variant \in {"disk", "cloud"}
    /\ frontTemplate \in BOOLEAN
    /\ backTemplate \in BOOLEAN
    /\ input \in [Requests -> Forms]
    /\ pc = [r \in Requests |-> "received"]
    /\ loc = [r \in Requests |-> InitLoc]
    /\ responses = [r \in Requests |-> <<>>]
    /\ calls = [r \in Requests |-> <<>>]
    /\ wrote = [r \in Requests |-> {}]
    /\ uploadDir = EmptyMap
    /\ outputDir = EmptyMap
    /\ cloudUploads = {}
    /\ cloudGenerated = EmptyMap
    /\ ptA = 0 /\ ptB = 0 /\ pxPair = <<>>
    /\ sanIn = NoSanIn /\ sanOut = <<>>


(************************ paths and responses ****************************)
TempReg == <<"t","e","m","p">>
\* multer.diskStorage filename: req.body holds the text parts read so far
storageReg(form) ==
    IF form.fieldsFirst /\ "reg" \in DOMAIN form.body /\ form.body.reg # <<>>
    THEN form.body.reg ELSE TempReg
photoFilename(form) ==
    LET ext == extname(form.upload[1].originalname)
    IN  <<"static/uploads/">> \o safeRegOf(storageReg(form)) \o <<"_photo">> \o ext
qrPathOf(safeReg) == <<"static/id_cards/futo_">> \o safeReg \o <<"_qr.png">>
frontOutputOf(safeReg) == <<"static/id_cards/futo_">> \o safeReg \o <<"_front.png">>
backOutputOf(safeReg) == <<"static/id_cards/futo_">> \o safeReg \o <<"_back.png">>
frontPublicId(safeReg) == <<"futo_">> \o safeReg \o <<"_front">>
backPublicId(safeReg) == <<"futo_">> \o safeReg \o <<"_back">>

Response(st, c, e, l) == [status |-> st, cause |-> c, error |-> e, locs |-> l]

\* app.use((err, req, res, next) => ...): the route's error handler
errorHandler(err) ==
    IF err.multer /\ err.code = "LIMIT_FILE_SIZE"
    THEN Response(413, err.cause, <<"File too large (max 16MB)">>, {})
    ELSE Response(500, err.cause, err.message, {})

\* the catch block of the /generate handler
catchBlock(err) == Response(500, err.cause, <<"Error: ">> \o err.message, {})

\* res.status(400).json({ error })
badRequest(c, e) == Response(400, c, e, {})

\* the success answer: res.sendFile(frontOutput) / res.json({success, frontUrl, backUrl})
successResponse(v) ==
    IF v = "disk" THEN Response(200, "none", <<>>, {"frontFile"})
    ELSE Response(200, "none", <<>>, {"frontUrl", "backUrl"})

Err(c, m) == [multer |-> FALSE, code |-> "", cause |-> c, message |-> m]
LimitFileSize == [multer |-> TRUE, code |-> "LIMIT_FILE_SIZE", cause |-> "too_large",
                  message |-> <<"File too large">>]

Finish(r, resp) ==
    /\ pc' = [pc EXCEPT ![r] = "done"]
    /\ responses' = [responses EXCEPT ![r] = Append(@, resp)]
Goto(r, where) ==
    /\ pc' = [pc EXCEPT ![r] = where]
    /\ UNCHANGED responses

(**************************** upload.single ******************************)
\* multer reads the multipart stream: fileFilter, then the storage engine,
\* then the size limit; an error goes to the error handler, not the route
Multer(r) ==
    /\ pc[r] = "received"
    /\ UNCHANGED <<envVars, ptVars, cloudVars, outputDir>>
    /\ LET form == input[r] IN
       IF form.upload = <<>>
       THEN Goto(r, "handler") /\ UNCHANGED <<loc, wrote, uploadDir>>
       ELSE IF ~fileFilter(form.upload[1])
       THEN /\ Finish(r, errorHandler(Err("unsupported_media",
                        <<"Only image files (PNG, JPG, JPEG, GIF) are allowed">>)))
            /\ UNCHANGED <<loc, wrote, uploadDir>>
       ELSE IF variant = "disk"
       THEN LET path == photoFilename(form) IN
            /\ wrote' = [wrote EXCEPT ![r] = @ \cup {path}]
            /\ IF form.upload[1].sizeMB > MaxFileMB
               THEN \* the truncated file is removed again
                    /\ uploadDir' = Remove(uploadDir, path)
                    /\ Finish(r, errorHandler(LimitFileSize))
                    /\ UNCHANGED loc
               ELSE /\ uploadDir' = Put(uploadDir, path, r)
                    /\ loc' = [loc EXCEPT ![r].photoPath = path]
                    /\ Goto(r, "handler")
       ELSE /\ UNCHANGED <<loc, wrote, uploadDir>>
            /\ IF form.upload[1].sizeMB > MaxFileMB
               THEN Finish(r, errorHandler(LimitFileSize))
               ELSE Goto(r, "handler")

(************************* app.post('/generate') *************************)
StartCall(r, what, id) ==
    calls' = [calls EXCEPT ![r] = Append(@, [op |-> what, id |-> id, result |-> "pending"])]
EndCall(r, res) ==
    calls' = [calls EXCEPT ![r] = [@ EXCEPT ![Len(@)].result = res]]

\* the photo check placed before validation
earlyAnswerPhotoFirst(form) ==
    LET validation == validateFormInput(form.body)
    IN  IF form.upload = <<>>
        THEN <<badRequest("no_photo", <<"No photo uploaded">>)>>
        ELSE IF ~validation.valid
        THEN <<badRequest("validation", validation.error)>>
        ELSE <<>>
\* the two early returns of the handler, in their order: the answer that
\* ends the request, <<>> when it goes on
earlyAnswer(form) ==
    LET validation == validateFormInput(form.body)
    IN  IF ~validation.valid
        THEN <<badRequest("validation", validation.error)>>
        ELSE IF form.upload = <<>>
        THEN <<badRequest("no_photo", <<"No photo uploaded">>)>>
        ELSE <<>>

\* the handler up to its first await: validation, the photo check, and then
\* the photo upload (cloud) or generateIDCard up to QRCode.toFile (disk)
Handler(r) ==
    /\ pc[r] = "handler"
    /\ UNCHANGED <<envVars, ptVars, diskVars, cloudUploads, cloudGenerated>>
    /\ LET form == input[r]
           early == earlyAnswer(form)
       IN  IF early # <<>>
           THEN Finish(r, early[1]) /\ UNCHANGED <<loc, calls>>
           ELSE IF variant = "cloud"
           THEN /\ StartCall(r, "photo", <<>>)
                /\ Goto(r, "await_photo_upload")
                /\ UNCHANGED loc
           ELSE /\ loc' = [loc EXCEPT ![r].safeReg = safeRegOf(form.body.reg)]
                /\ Goto(r, "await_qr")
                /\ UNCHANGED calls

\* cloud: the photo upload returns; on success generateIDCard runs up to
\* QRCode.toBuffer
PhotoUploadReturn(r) ==
    /\ pc[r] = "await_photo_upload"
    /\ UNCHANGED <<envVars, ptVars, diskVars, cloudGenerated>>
    /\ \E ok \in BOOLEAN :
        IF ok
        THEN /\ EndCall(r, "ok")
             /\ cloudUploads' = cloudUploads \cup {r}
             /\ loc' = [loc EXCEPT ![r].photoUrl = r,
                                   ![r].safeReg = safeRegOf(input[r].body.reg)]
             /\ Goto(r, "await_qr")
        ELSE /\ EndCall(r, "error")
             /\ Finish(r, catchBlock(Err("storage", <<"photo upload failed">>)))
             /\ UNCHANGED <<cloudUploads, loc>>


(***************************** generateIDCard ****************************)
QrImageOf(text) == [kind |-> "qr", qr |-> text, photo |-> 0, text |-> <<>>]
FrontImageOf(qrImage, photoImage) ==
    [kind |-> "front", qr |-> qrImage, photo |-> photoImage, text |-> <<>>]
Line(ptMilli, str) == [px |-> ptToPx(ptMilli), str |-> str]
\* the fillText calls of the back card, in order
BackImageOf(data) ==
    [kind |-> "back", qr |-> <<>>, photo |-> 0,
     text |-> << Line(7000, toUpperCase(data.name)),
                 Line(4319, data.faculty), Line(4319, data.dept),
                 Line(4319, data.reg), Line(4319, data.gender),
                 Line(6000, <<"EXPIRY">>), Line(6000, data.expiry) >>]

\* the two existsSync checks: the message of the error thrown, <<>> if none
templateCheck(front, back) ==
    IF ~front THEN <<"Front template not found at: ", "static/front_template.png">>
    ELSE IF ~back THEN <<"Back template not found at: ", "static/back_template.png">>
    ELSE <<>>

\* generateQRCode returns; then the template checks and loadImage(front template)
QrReturn(r) ==
    /\ pc[r] = "await_qr"
    /\ UNCHANGED <<envVars, ptVars, cloudVars, uploadDir>>
    /\ \E ok \in BOOLEAN :
        IF ~ok
        THEN /\ Finish(r, catchBlock(Err("render", <<"QR code generation failed">>)))
             /\ UNCHANGED <<loc, wrote, outputDir>>
        ELSE /\ IF variant = "disk"
                THEN /\ outputDir' = Put(outputDir, qrPathOf(loc[r].safeReg),
                                         QrImageOf(qrTextOf(input[r].body)))
                     /\ wrote' = [wrote EXCEPT ![r] = @ \cup {qrPathOf(loc[r].safeReg)}]
                     /\ UNCHANGED loc
                ELSE /\ loc' = [loc EXCEPT ![r].qrBuffer = qrTextOf(input[r].body)]
                     /\ UNCHANGED <<wrote, outputDir>>
             /\ LET missing == templateCheck(frontTemplate, backTemplate) IN
                IF missing # <<>>
                THEN Finish(r, catchBlock(Err("template_missing", missing)))
                ELSE Goto(r, "await_front_template")

\* loadImage(frontTemplatePath) returns; then loadImage(qr)
FrontTemplateLoaded(r) ==
    /\ pc[r] = "await_front_template"
    /\ UNCHANGED <<envVars, ptVars, cloudVars, diskVars, loc>>
    /\ \E ok \in BOOLEAN :
        IF ok THEN Goto(r, "await_qr_image")
        ELSE Finish(r, catchBlock(Err("render", <<"front template unreadable">>)))

\* loadImage(qrPath) / loadImage(qrBuffer) returns; then loadImage(photo)
QrImageLoaded(r) ==
    /\ pc[r] = "await_qr_image"
    /\ UNCHANGED <<envVars, ptVars, cloudVars, diskVars>>
    /\ LET path == qrPathOf(loc[r].safeReg)
           readable == variant = "cloud" \/ path \in DOMAIN outputDir
       IN \E ok \in BOOLEAN :
        IF ok /\ readable
        THEN /\ loc' = [loc EXCEPT ![r].qrImage =
                            IF variant = "disk" THEN outputDir[path].qr ELSE loc[r].qrBuffer]
             /\ Goto(r, "await_photo_image")
        ELSE /\ Finish(r, catchBlock(Err("render", <<"QR image unreadable">>)))
             /\ UNCHANGED loc

\* loadImage(photoPath) / loadImage(photoUrl) returns; the front card is drawn
\* and its write (disk) or upload (cloud) starts
PhotoImageLoaded(r) ==
    /\ pc[r] = "await_photo_image"
    /\ UNCHANGED <<envVars, ptVars, diskVars, cloudUploads, cloudGenerated>>
    /\ LET readable == IF variant = "disk" THEN loc[r].photoPath \in DOMAIN uploadDir
                       ELSE loc[r].photoUrl \in cloudUploads
           photo == IF variant = "disk" THEN uploadDir[loc[r].photoPath] ELSE loc[r].photoUrl
       IN \E ok \in BOOLEAN :
        IF ok /\ readable
        THEN /\ loc' = [loc EXCEPT ![r].photoImage = photo,
                                   ![r].frontBuffer = FrontImageOf(loc[r].qrImage, photo)]
             /\ IF variant = "cloud"
                THEN StartCall(r, "front", frontPublicId(loc[r].safeReg))
                ELSE UNCHANGED calls
             /\ Goto(r, "await_front_store")
        ELSE /\ Finish(r, catchBlock(Err("render", <<"photo unreadable">>)))
             /\ UNCHANGED <<loc, calls>>

\* fs.writeFile(frontOutput) / the front upload returns; then
\* loadImage(backTemplatePath)
FrontStoreReturn(r) ==
    /\ pc[r] = "await_front_store"
    /\ UNCHANGED <<envVars, ptVars, uploadDir, cloudUploads>>
    /\ \E ok \in BOOLEAN :
        IF ok
        THEN /\ IF variant = "disk"
                THEN /\ outputDir' = Put(outputDir, frontOutputOf(loc[r].safeReg), loc[r].frontBuffer)
                     /\ wrote' = [wrote EXCEPT ![r] = @ \cup {frontOutputOf(loc[r].safeReg)}]
                     /\ loc' = [loc EXCEPT ![r].frontUrl = frontOutputOf(loc[r].safeReg)]
                     /\ UNCHANGED <<calls, cloudGenerated>>
                ELSE /\ cloudGenerated' = Put(cloudGenerated, frontPublicId(loc[r].safeReg),
                                              loc[r].frontBuffer)
                     /\ EndCall(r, "ok")
                     /\ loc' = [loc EXCEPT ![r].frontUrl = frontPublicId(loc[r].safeReg)]
                     /\ UNCHANGED <<wrote, outputDir>>
             /\ Goto(r, "await_back_template")
        ELSE /\ IF variant = "disk" THEN UNCHANGED calls ELSE EndCall(r, "error")
             /\ Finish(r, catchBlock(Err(IF variant = "disk" THEN "io" ELSE "storage",
                                         <<"front card not stored">>)))
             /\ UNCHANGED <<loc, wrote, outputDir, cloudGenerated>>

\* loadImage(backTemplatePath) returns; the back card is drawn and its write
\* (disk) or upload (cloud) starts
BackTemplateLoaded(r) ==
    /\ pc[r] = "await_back_template"
    /\ UNCHANGED <<envVars, ptVars, diskVars, cloudUploads, cloudGenerated>>
    /\ \E ok \in BOOLEAN :
        IF ok
        THEN /\ loc' = [loc EXCEPT ![r].backBuffer = BackImageOf(input[r].body)]
             /\ IF variant = "cloud"
                THEN StartCall(r, "back", backPublicId(loc[r].safeReg))
                ELSE UNCHANGED calls
             /\ Goto(r, "await_back_store")
        ELSE /\ Finish(r, catchBlock(Err("render", <<"back template unreadable">>)))
             /\ UNCHANGED <<loc, calls>>

\* the back card was stored: generateIDCard returns and the handler answers
BackStoreOk(r) ==
    /\ IF variant = "disk"
       THEN /\ outputDir' = Put(outputDir, backOutputOf(loc[r].safeReg), loc[r].backBuffer)
            /\ wrote' = [wrote EXCEPT ![r] = @ \cup {backOutputOf(loc[r].safeReg)}]
            /\ loc' = [loc EXCEPT ![r].backUrl = backOutputOf(loc[r].safeReg)]
            /\ UNCHANGED <<calls, cloudGenerated>>
       ELSE /\ cloudGenerated' = Put(cloudGenerated, backPublicId(loc[r].safeReg),
                                     loc[r].backBuffer)
            /\ EndCall(r, "ok")
            /\ loc' = [loc EXCEPT ![r].backUrl = backPublicId(loc[r].safeReg)]
            /\ UNCHANGED <<wrote, outputDir>>
    /\ IF variant = "disk"
       THEN Goto(r, "await_send_file")
       ELSE Finish(r, successResponse(variant))

\* a failed back card answered as a success
BackStoreFailedPartial(r) ==
    /\ IF variant = "disk" THEN UNCHANGED calls ELSE EndCall(r, "error")
    /\ Finish(r, successResponse(variant))
    /\ UNCHANGED <<loc, wrote, outputDir, cloudGenerated>>

\* a failed back upload sent again
BackStoreFailedRetry(r) ==
    /\ IF variant = "disk" THEN UNCHANGED calls
       ELSE calls' = [calls EXCEPT ![r] =
                Append([@ EXCEPT ![Len(@)].result = "error"],
                       [op |-> "back", id |-> backPublicId(loc[r].safeReg), result |-> "pending"])]
    /\ IF variant = "cloud" /\ Len(calls[r]) < 4
       THEN Goto(r, "await_back_store")
       ELSE Finish(r, catchBlock(Err("storage", <<"back card not stored">>)))
    /\ UNCHANGED <<loc, wrote, outputDir, cloudGenerated>>

\* a failed back card swallowed: the handler ends and nothing is answered
BackStoreFailedSilent(r) ==
    /\ IF variant = "disk" THEN UNCHANGED calls ELSE EndCall(r, "error")
    /\ Goto(r, "done")
    /\ UNCHANGED <<loc, wrote, outputDir, cloudGenerated>>

\* the write or the upload of the back card failed: the rejection is thrown
\* out of generateIDCard into the handler's catch block
BackStoreFailed(r) ==
    /\ IF variant = "disk" THEN UNCHANGED calls ELSE EndCall(r, "error")
    /\ Finish(r, catchBlock(Err(IF variant = "disk" THEN "io" ELSE "storage",
                                <<"back card not stored">>)))
    /\ UNCHANGED <<loc, wrote, outputDir, cloudGenerated>>

\* fs.writeFile(backOutput) / the back upload returns
BackStoreReturn(r) ==
    /\ pc[r] = "await_back_store"
    /\ UNCHANGED <<envVars, ptVars, uploadDir, cloudUploads>>
    /\ (BackStoreOk(r) \/ BackStoreFailed(r))

\* disk: res.sendFile(frontOutput) ends; without a callback it passes a
\* failed read to next(err), that is to the error handler
SendFileReturn(r) ==
    /\ pc[r] = "await_send_file"
    /\ UNCHANGED <<envVars, ptVars, diskVars, cloudVars, loc>>
    /\ \E ok \in BOOLEAN :
        IF ok
        THEN Finish(r, successResponse(variant))
        ELSE Finish(r, errorHandler(Err("io", <<"front card not read">>)))

(**************************** specification ******************************)
Next ==
    \E r \in Requests :
        \/ Multer(r)
        \/ Handler(r)
        \/ PhotoUploadReturn(r)
        \/ QrReturn(r)
        \/ FrontTemplateLoaded(r)
        \/ QrImageLoaded(r)
        \/ PhotoImageLoaded(r)
        \/ FrontStoreReturn(r)
        \/ BackTemplateLoaded(r)
        \/ BackStoreReturn(r)
        \/ SendFileReturn(r)

Spec == Init /\ [][Next]_vars

\* the route handler of request r and the return of each call it awaits
Proceed(r) ==
    \/ Handler(r)
    \/ PhotoUploadReturn(r)
    \/ QrReturn(r)
    \/ FrontTemplateLoaded(r)
    \/ QrImageLoaded(r)
    \/ PhotoImageLoaded(r)
    \/ FrontStoreReturn(r)
    \/ BackTemplateLoaded(r)
    \/ BackStoreReturn(r)
    \/ SendFileReturn(r)

\* the event loop runs a dispatched handler, and every call that is awaited
\* returns or fails in the end
Fairness == \A r \in Requests : WF_vars(Proceed(r))
\* one request submits any form while the others submit a good one
InitLive ==
    /\ Init
    /\ \A r \in Requests : r # 1 => input[r] = Form(B0, <<PhotoJpg>>, TRUE)
SpecLive == InitLive /\ [][Next]_vars /\ Fairness


(************************* the conversion alone **************************)
\* point sizes in thousandths of a point: a grid from 0 to MaxPtMilli, and
\* the three sizes the back card uses (7pt, 4.319pt, 6pt)
MaxPtMilli == 400
PtInputs == 0..MaxPtMilli \cup {4319, 6000, 7000}

InitPt ==
    /\ variant = "cloud"
    /\ frontTemplate = TRUE
    /\ backTemplate = TRUE
    /\ input = [r \in Requests |-> Form(B0, <<PhotoJpg>>, TRUE)]
    /\ pc = [r \in Requests |-> "idle"]
    /\ loc = [r \in Requests |-> InitLoc]
    /\ responses = [r \in Requests |-> <<>>]
    /\ calls = [r \in Requests |-> <<>>]
    /\ wrote = [r \in Requests |-> {}]
    /\ uploadDir = EmptyMap
    /\ outputDir = EmptyMap
    /\ cloudUploads = {}
    /\ cloudGenerated = EmptyMap
    /\ ptA \in PtInputs
    /\ ptB \in PtInputs
    /\ pxPair = <<>>
    /\ sanIn = NoSanIn /\ sanOut = <<>>

ConvertPt ==
    /\ pxPair = <<>>
    /\ pxPair' = <<ptToPx(ptA), ptToPx(ptB)>>
    /\ UNCHANGED <<envVars, pc, loc, responses, diskVars, cloudVars, ptA, ptB, sanIn, sanOut>>

NextPt == ConvertPt

SpecPt == InitPt /\ [][NextPt]_vars

(************************** the naming alone *****************************)
\* registration numbers as they arrive: every text of at most MaxSanLen
\* characters over letters, a digit, the characters the validation pattern
\* lets through, a backslash and a character it rejects
MaxSanLen == 3
SanAlphabet == {"a", "Z", "7", ".", "/", "\\", "_", "-", " ", "#"}
SanRegs == UNION { [1..k -> SanAlphabet] : k \in 0..MaxSanLen }
SanBody(reg) == With(B0, "reg", reg)
SanForm == Form(SanBody(sanIn.reg), <<sanIn.photo>>, sanIn.fieldsFirst)
\* a back card that an earlier successful request left in static/id_cards
StoredBack == Put(EmptyMap, backOutputOf(<<"a", "_", "7">>), <<"back">>)

InitSafe ==
    /\ variant \in {"disk", "cloud"}
    /\ frontTemplate = TRUE
    /\ backTemplate = TRUE
    /\ input = [r \in Requests |-> Form(B0, <<PhotoJpg>>, TRUE)]
    /\ pc = [r \in Requests |-> "idle"]
    /\ loc = [r \in Requests |-> InitLoc]
    /\ responses = [r \in Requests |-> <<>>]
    /\ calls = [r \in Requests |-> <<>>]
    /\ wrote = [r \in Requests |-> {}]
    /\ uploadDir = EmptyMap
    /\ outputDir \in {EmptyMap, StoredBack}
    /\ cloudUploads = {}
    /\ cloudGenerated = EmptyMap
    /\ ptA = 0 /\ ptB = 0 /\ pxPair = <<>>
    /\ sanIn \in [reg : SanRegs, photo : {PhotoJpg, PhotoJpgx}, fieldsFirst : BOOLEAN]
    /\ sanOut = <<>>

SanResult(site, safeReg, names, status) ==
    [site |-> site, safeReg |-> safeReg, names |-> names, status |-> status]
SanUnchanged == UNCHANGED <<envVars, pc, loc, responses, diskVars, cloudVars, ptA, ptB, pxPair, sanIn>>

\* multer.diskStorage filename: the name of the stored photo, made from the
\* reg part as it was sent (nothing is validated yet), 'temp' without it
StorageFilename ==
    /\ sanOut = <<>>
    /\ variant = "disk"
    /\ sanOut' = <<SanResult("filename", safeRegOf(storageReg(SanForm)),
                             {photoFilename(SanForm)}, 0)>>
    /\ SanUnchanged

\* generateIDCard: safeReg and every name built from it; the route calls it
\* only with a body that passed validateFormInput
GenerateNames ==
    /\ sanOut = <<>>
    /\ validateFormInput(SanForm.body).valid
    /\ LET safeReg == safeRegOf(SanForm.body.reg)
       IN  sanOut' = <<SanResult("generate", safeReg,
                                 IF variant = "disk"
                                 THEN {qrPathOf(safeReg), frontOutputOf(safeReg), backOutputOf(safeReg)}
                                 ELSE {frontPublicId(safeReg), backPublicId(safeReg)}, 0)>>
    /\ SanUnchanged

\* app.get('/download-back/:reg'): a route parameter is never empty
DownloadBack ==
    /\ sanOut = <<>>
    /\ variant = "disk"
    /\ sanIn.reg # <<>>
    /\ LET safeReg == safeRegOf(sanIn.reg)
           backPath == backOutputOf(safeReg)
       IN  sanOut' = <<SanResult("download", safeReg, {backPath},
                                 IF backPath \in DOMAIN outputDir THEN 200 ELSE 404)>>
    /\ SanUnchanged

NextSafe == StorageFilename \/ GenerateNames \/ DownloadBack

SpecSafe == InitSafe /\ [][NextSafe]_vars


(******************************* claims **********************************)
Done(r) == pc[r] = "done"
Last(r) == responses[r][Len(responses[r])]
\* generateIDCard sets safeReg first, from a validated (non-empty) reg
GenInvoked(r) == loc[r].safeReg # <<>>
Rendered(r) == loc[r].qrImage # <<>> \/ loc[r].frontBuffer # NoImage \/ loc[r].backBuffer # NoImage
\* the request went past multer and was answered by the route handler
AnsweredByRoute(r) == Done(r) /\ Last(r).cause \notin {"unsupported_media", "too_large"}
MissingAny(data) == \E i \in DOMAIN Required : FieldMissing(data, Required[i])
NoSideEffects(r) == wrote[r] = {} /\ calls[r] = <<>>
InvalidCharsError == <<"Invalid characters in registration number">>
BadReg(data) == "reg" \in DOMAIN data /\ \E i \in DOMAIN data.reg : data.reg[i] \notin RegChars

\* C1: a request with a required field missing or blank is rejected by
\* validation before any rendering or upload, and leaves no side effect: no
\* file written to disk, nothing sent to the storage provider.
C1_MissingFieldNoSideEffects ==
    \A r \in Requests :
        MissingAny(input[r].body) =>
            /\ ~GenInvoked(r) /\ ~Rendered(r)
            /\ NoSideEffects(r)
            /\ AnsweredByRoute(r) => (Last(r).status = 400 /\ Last(r).cause = "validation")

\* C2 as stated: a registration number with a character outside
\* [A-Za-z0-9 ._/-] is rejected with the invalid-characters error, and
\* generateIDCard is never invoked.
C2_BadRegInvalidCharsError ==
    \A r \in Requests :
        BadReg(input[r].body) =>
            /\ ~GenInvoked(r)
            /\ AnsweredByRoute(r) => Last(r).error = InvalidCharsError

\* C2 amended: such a registration number is always rejected by
\* validateFormInput and generateIDCard is never invoked; the error is the
\* invalid-characters one exactly when the earlier checks (required fields,
\* name length, registration length) pass, and the earlier check's otherwise.
C2_BadRegRejected ==
    \A r \in Requests :
        LET data == input[r].body IN
        BadReg(data) =>
            /\ ~GenInvoked(r)
            /\ ~validateFormInput(data).valid
            /\ AnsweredByRoute(r) =>
                /\ Last(r).status = 400
                /\ Last(r).cause = "validation"
                /\ Last(r).error = InvalidCharsError
                     <=> (~MissingAny(data) /\ ~NameTooLong(data) /\ ~RegTooLong(data))

\* C2 witness: a registration number with a disallowed character, answered
\* with the invalid-characters error
C2_Witness ==
    \E r \in Requests :
        /\ BadReg(input[r].body) /\ Done(r)
        /\ Last(r).status = 400 /\ Last(r).error = InvalidCharsError

ListedExtensions ==
    { <<".","j","p","e","g">>, <<".","j","p","g">>, <<".","p","n","g">>, <<".","g","i","f">> }
ListedTypes == { MimeJpeg, <<"i","m","a","g","e","/","j","p","g">>, MimePng, MimeGif }
PhotoListed(file) ==
    /\ toLowerCase(extname(file.originalname)) \in ListedExtensions
    /\ file.mimetype \in ListedTypes

\* C3: a photo whose extension or declared content type is not one of jpeg,
\* jpg, png, gif is rejected before any upload and any rendering: it never
\* reaches the compositor.
C3_UnlistedPhotoRejected ==
    \A r \in Requests :
        (input[r].upload # <<>> /\ ~PhotoListed(input[r].upload[1])) =>
            /\ ~GenInvoked(r) /\ ~Rendered(r)
            /\ calls[r] = <<>>
            /\ pc[r] \in {"received", "done"}
            /\ Done(r) => Last(r).status # 200

BothStored(r) ==
    /\ loc[r].frontBuffer.kind = "front" /\ loc[r].backBuffer.kind = "back"
    /\ loc[r].frontUrl # <<>> /\ loc[r].backUrl # <<>>
    /\ IF variant = "disk"
       THEN {loc[r].frontUrl, loc[r].backUrl} \subseteq DOMAIN outputDir
       ELSE {loc[r].frontUrl, loc[r].backUrl} \subseteq DOMAIN cloudGenerated
GenFailed(r) == Done(r) /\ GenInvoked(r) /\ loc[r].backUrl = <<>>
ErrorCarriesNeither(r) == Last(r).status = 500 /\ Last(r).locs = {}

ReachedTemplateCheck(r) ==
    GenInvoked(r) /\ (pc[r] \notin {"await_qr", "done"} \/ (Done(r) /\ Last(r).error # <<"Error: ", "QR code generation failed">>))
OutputCalls(r) == { i \in DOMAIN calls[r] : calls[r][i].op \in {"front", "back"} }
PhotoPaths == { photoFilename(f) : f \in { g \in Forms : g.upload # <<>> } }

\* C5: with the front or the back template absent, a request that reaches
\* the template check fails with the template-missing error and leaves no
\* partial output: no card rendered, written or uploaded, and no
\* intermediate output file of its own.
C5_TemplateMissingNoOutput ==
    \A r \in Requests :
        (ReachedTemplateCheck(r) /\ ~(frontTemplate /\ backTemplate)) =>
            /\ Done(r) /\ Last(r).status = 500 /\ Last(r).cause = "template_missing"
            /\ loc[r].frontBuffer = NoImage /\ loc[r].backBuffer = NoImage
            /\ OutputCalls(r) = {}
            /\ wrote[r] \subseteq PhotoPaths


\* C6: concurrent requests share no mutable state: the front card a request
\* draws embeds the QR code and the photo of that request's own inputs.
C6_FrontCardOwnInputs ==
    \A r \in Requests :
        loc[r].frontBuffer.kind = "front" =>
            /\ loc[r].frontBuffer.qr = qrTextOf(input[r].body)
            /\ loc[r].frontBuffer.photo = r

ValidationCauses == {"validation", "no_photo"}
InternalCauses == {"template_missing", "render", "storage", "io"}

\* C7: every error response carries the status of its cause: 400 for a
\* validation failure, 413 for a photo over 16MB, 500 for an internal failure
\* (template missing, render failure, storage error), and nothing else is
\* answered 500.
C7_StatusReflectsCause ==
    \A r \in Requests : \A i \in DOMAIN responses[r] :
        LET resp == responses[r][i] IN
        resp.status # 200 =>
            /\ resp.status \in {400, 413, 500}
            /\ resp.status = 400 <=> resp.cause \in ValidationCauses
            /\ resp.status = 413 <=> resp.cause = "too_large"
            /\ resp.status = 500 <=> resp.cause \in InternalCauses

FailedCalls(r) == { i \in DOMAIN calls[r] : calls[r][i].result = "error" }
C8_State ==
    \A r \in Requests :
        FailedCalls(r) # {} =>
            /\ FailedCalls(r) = {Len(calls[r])}
            /\ Done(r)
            /\ Len(responses[r]) = 1
            /\ Last(r).status = 500 /\ Last(r).cause = "storage"
C8_Step ==
    /\ \A r \in Requests : FailedCalls(r) # {} => calls'[r] = calls[r]
    /\ cloudUploads \subseteq cloudUploads'
    /\ \A id \in DOMAIN cloudGenerated : id \in DOMAIN cloudGenerated'

\* C8: once an upload to the storage provider has failed, the request makes
\* no further call to it: no retry, no deletion or rollback of what was
\* uploaded, and the failure is answered to the caller.
C8_NoRetryNoRollback == []C8_State /\ [][C8_Step]_vars

\* C8 witness: front card persisted, back card not persisted, error returned
C8_Witness ==
    \E r \in Requests :
        /\ Done(r) /\ Last(r).status = 500
        /\ Len(calls[r]) = 3
        /\ calls[r][2].op = "front" /\ calls[r][2].result = "ok"
        /\ calls[r][3].op = "back" /\ calls[r][3].result = "error"
        /\ frontPublicId(loc[r].safeReg) \in DOMAIN cloudGenerated
        /\ backPublicId(loc[r].safeReg) \notin DOMAIN cloudGenerated

TooLong(data) ==
    \/ "name" \in DOMAIN data /\ Len(data.name) > MaxNameLen
    \/ "reg" \in DOMAIN data /\ Len(data.reg) > MaxRegLen

\* C9: a name over 100 characters or a registration number over 50 is
\* rejected by validation before any rendering and with no side effects; a
\* name of exactly 100 and a registration number of exactly 50 allowed
\* characters pass.
C9_TooLongNoSideEffects ==
    /\ validateFormInput(GoodBody(Rep("n", MaxNameLen), Rep("7", MaxRegLen))).valid
    /\ \A r \in Requests :
        TooLong(input[r].body) =>
            /\ ~GenInvoked(r) /\ ~Rendered(r)
            /\ NoSideEffects(r)
            /\ AnsweredByRoute(r) => (Last(r).status = 400 /\ Last(r).cause = "validation")

Converted == pxPair # <<>>
\* n - 1/2 <= ptMilli * 300 / 72000 < n + 1/2
IsNearest(n, ptMilli) ==
    /\ (2 * n - 1) * 72000 <= 2 * 300 * ptMilli
    /\ 2 * 300 * ptMilli < (2 * n + 1) * 72000
IsMaxOneRound(px, ptMilli) ==
    \/ px >= 1 /\ IsNearest(px, ptMilli)
    \/ px = 1 /\ 2 * 300 * ptMilli < 72000

\* C10: ptToPx is monotonic, at least 1 for a positive size, and equal to
\* max(1, round(pt * 300 / 72)): the integer nearest to pt * 300 / 72, halves
\* rounded up, and 1 when that integer is below 1.
C10_PtToPx ==
    Converted =>
        /\ IsMaxOneRound(pxPair[1], ptA) /\ IsMaxOneRound(pxPair[2], ptB)
        /\ ptA <= ptB => pxPair[1] <= pxPair[2]
        /\ ptA > 0 => pxPair[1] >= 1

\* C10 witness: a positive size below half a pixel converted to 1, beside a
\* size at a rounding boundary (0.36pt, 1.5px) converted to 2
C10_Witness ==
    /\ Converted
    /\ 0 < ptA /\ ptA < 120 /\ pxPair[1] = 1
    /\ ptB = 360 /\ pxPair[2] = 2

\* a name stays inside its folder: it starts with the folder (and prefix) the
\* code wrote, and nothing after it is a path separator
NamePrefixes == {"static/uploads/", "static/id_cards/futo_", "futo_"}
StaysInside(n) ==
    /\ Len(n) >= 1
    /\ n[1] \in NamePrefixes
    /\ \A i \in 2..Len(n) : n[i] \notin {"/", "\\"}

\* C11: whatever registration number arrives (in the form before validation,
\* in a validated body, or in the URL of /download-back/:reg), the derived
\* safeReg holds only letters, digits, underscore and hyphen, and every file
\* path or public_id built from it stays inside its folder.
C11_SanitizedNames ==
    sanOut # <<>> =>
        /\ Range(sanOut[1].safeReg) \subseteq SafeChars
        /\ \A n \in sanOut[1].names : StaysInside(n)
\* /download-back/../ looks up static/id_cards/futo_____back.png and finds nothing
C11_Witness ==
    /\ sanOut # <<>>
    /\ sanOut[1].site = "download"
    /\ sanIn.reg = <<".", ".", "/">>
    /\ sanOut[1].names = {backOutputOf(<<"_", "_", "_">>)}
    /\ sanOut[1].status = 404

OneResponse(r) == Done(r) /\ Len(responses[r]) = 1
AnswerKept ==
    \A r \in Requests :
        /\ Len(responses'[r]) <= 1
        /\ responses[r] # <<>> => responses'[r] = responses[r]

\* C12: when every awaited call returns or fails in the end, every request
\* that reaches the /generate handler is answered in the end, by exactly one
\* response; no request is ever answered twice.
C12_ExactlyOneResponse ==
    /\ \A r \in Requests : (pc[r] = "handler") ~> OneResponse(r)
    /\ [](\A r \in Requests : Len(responses[r]) <= 1)
    /\ [][AnswerKept]_vars
\* C12 witness: one request answered once after all its calls returned, the
\* other answered once by the catch block after a call of its own failed
C12_Witness ==
    \E r, q \in Requests :
        /\ OneResponse(r) /\ Last(r).status = 200 /\ GenInvoked(r)
        /\ OneResponse(q) /\ Last(q).status = 500 /\ GenInvoked(q)
        /\ Last(q).error[1] = "Error: "

Succeeded(r) == Done(r) /\ Last(r).status = 200
CardStore == IF variant = "disk" THEN outputDir ELSE cloudGenerated
KeepsOwnCards(r) ==
    /\ loc[r].frontUrl \in DOMAIN CardStore /\ CardStore[loc[r].frontUrl] = loc[r].frontBuffer
    /\ loc[r].backUrl \in DOMAIN CardStore /\ CardStore[loc[r].backUrl] = loc[r].backBuffer

\* C13: two requests that pass validation with different registration
\* numbers never store their cards under the same destination
\* (futo_<safeReg>_front / futo_<safeReg>_back), so after both succeeded the
\* stored cards of each are still its own.
C13_DistinctRegsDistinctIds ==
    \A r, q \in Requests :
        (/\ Succeeded(r) /\ Succeeded(q)
         /\ input[r].body.reg # input[q].body.reg) =>
            /\ loc[r].frontUrl # loc[q].frontUrl
            /\ loc[r].backUrl # loc[q].backUrl
            /\ KeepsOwnCards(r) /\ KeepsOwnCards(q)

NoPhotoError == <<"No photo uploaded">>

\* C14: a request without a photo part whose six text fields pass validation
\* is answered 400 'No photo uploaded', and neither an upload to storage nor
\* generateIDCard is invoked for it; validation comes before the photo
\* check, so without a photo part an invalid field is what is answered.
C14_NoPhotoRejected ==
    \A r \in Requests :
        LET validation == validateFormInput(input[r].body)
        IN  /\ input[r].upload = <<>> =>
                /\ calls[r] = <<>> /\ wrote[r] = {} /\ r \notin cloudUploads
                /\ ~GenInvoked(r) /\ ~Rendered(r)
                /\ Done(r) =>
                      /\ Len(responses[r]) = 1
                      /\ Last(r).status = 400
                      /\ Last(r).error = IF validation.valid THEN NoPhotoError
                                         ELSE validation.error
            /\ (Done(r) /\ Last(r).error = NoPhotoError) =>
                  validation.valid /\ input[r].upload = <<>>
\* C14 witness: one request with good fields and no photo answered 'No photo
\* uploaded', the other without its name and without a photo answered
\* 'Missing field: name'
C14_Witness ==
    \E r, q \in Requests :
        /\ input[r] = Form(B0, <<>>, TRUE)
        /\ Done(r) /\ Last(r).status = 400 /\ Last(r).error = NoPhotoError
        /\ input[q] = Form(Without(B0, "name"), <<>>, TRUE)
        /\ Done(q) /\ Last(q).status = 400 /\ Last(q).error = <<"Missing field: ", "name">>
====
